---- MODULE Spec2Model ----
(***************************************************************************)
(* Model of aider/server.py: the HTTP front end of the coder.              *)
(*   start_server  - builds the coder, forces its flags, starts serving    *)
(*   chat          - POST /chat, blocking or streamed                      *)
(*   process_generator - the sync-to-async streaming adapter               *)
(*   get_file      - GET /file, path join + containment check              *)
(* Strings that are inspected character by character (paths) are           *)
(* sequences of one-character strings.                                     *)
(***************************************************************************)
EXTENDS Integers, Sequences, FiniteSets, TLC

VARIABLES startup_pc, coder, task, generators, fileReq, fileResp

vars == <<startup_pc, coder, task, generators, fileReq, fileResp>>

\* ---------------------------------------------------------------- bounds
MaxPathLen == 5
MaxTasks == 2
MaxChunks == 2

\* A text (message, chunk, response detail) is a sequence of string pieces;
\* concatenating texts is \o.
NoText == <<>>

\* ------------------------------------------------------------ file system
Chars == {"/", ".", "a", "b"}

\* every file_path string of at most MaxPathLen characters
PathStrings == UNION {[1..k -> Chars] : k \in 0..MaxPathLen}

\* coder.repo.root: the repository is the directory /a
RepoRoot == <<"/", "a">>

\* regular files on disk, as component lists:
\*   /a/b and /a/a/b inside the repository, /ab a sibling whose name starts
\*   with the root's name, /b an unrelated file outside
Files == { << <<"a">>, <<"b">> >>,
           << <<"a">>, <<"a">>, <<"b">> >>,
           << <<"a", "b">> >>,
           << <<"b">> >> }

Prefixes(s) == {SubSeq(s, 1, k) : k \in 0..Len(s)}

\* directories are the proper ancestors of the files
Dirs == UNION {Prefixes(f) \ {f} : f \in Files}

\* str.split("/")
RECURSIVE SplitFrom(_, _, _, _)
SplitFrom(s, i, cur, acc) ==
    IF i > Len(s) THEN Append(acc, cur)
    ELSE IF s[i] = "/" THEN SplitFrom(s, i + 1, <<>>, Append(acc, cur))
    ELSE SplitFrom(s, i + 1, Append(cur, s[i]), acc)

split(s) == SplitFrom(s, 1, <<>>, <<>>)

\* "/".join(comps)
RECURSIVE SlashJoin(_)
SlashJoin(comps) ==
    IF comps = <<>> THEN <<>>
    ELSE IF Len(comps) = 1 THEN comps[1]
    ELSE comps[1] \o <<"/">> \o SlashJoin(Tail(comps))

\* str.startswith
startswith(s, prefix) ==
    /\ Len(prefix) <= Len(s)
    /\ SubSeq(s, 1, Len(prefix)) = prefix

\* os.path.join(a, p) for two arguments
join(a, p) ==
    IF startswith(p, <<"/">>) THEN p
    ELSE IF a = <<>> \/ a[Len(a)] = "/" THEN a \o p
    ELSE a \o <<"/">> \o p

DotDot == <<".", ".">>

\* the component loop of os.path.normpath
RECURSIVE NormComps(_, _, _, _)
NormComps(comps, i, initial_slashes, new_comps) ==
    IF i > Len(comps) THEN new_comps
    ELSE LET comp == comps[i] IN
         IF comp \in {<<>>, <<".">>}
         THEN NormComps(comps, i + 1, initial_slashes, new_comps)
         ELSE IF \/ comp # DotDot
                 \/ (initial_slashes = 0 /\ new_comps = <<>>)
                 \/ (new_comps # <<>> /\ new_comps[Len(new_comps)] = DotDot)
         THEN NormComps(comps, i + 1, initial_slashes, Append(new_comps, comp))
         ELSE IF new_comps # <<>>
         THEN NormComps(comps, i + 1, initial_slashes,
                        SubSeq(new_comps, 1, Len(new_comps) - 1))
         ELSE NormComps(comps, i + 1, initial_slashes, new_comps)

\* os.path.normpath
normpath(path) ==
    IF path = <<>> THEN <<".">>
    ELSE LET initial_slashes ==
                 IF ~startswith(path, <<"/">>) THEN 0
                 ELSE IF startswith(path, <<"/", "/">>)
                         /\ ~startswith(path, <<"/", "/", "/">>) THEN 2
                 ELSE 1
             comps == NormComps(split(path), 1, initial_slashes, <<>>)
             joined == [k \in 1..initial_slashes |-> "/"] \o SlashJoin(comps)
         IN IF joined = <<>> THEN <<".">> ELSE joined

ENOENT == << <<"?">> >>

\* the kernel's walk of an absolute path: the file or directory it names
RECURSIVE Walk(_, _, _)
Walk(comps, i, cur) ==
    IF i > Len(comps) THEN cur
    ELSE IF cur \in Files \/ cur = ENOENT THEN ENOENT
    ELSE LET comp == comps[i] IN
         IF comp \in {<<>>, <<".">>} THEN Walk(comps, i + 1, cur)
         ELSE IF comp = DotDot
         THEN Walk(comps, i + 1,
                   IF cur = <<>> THEN cur ELSE SubSeq(cur, 1, Len(cur) - 1))
         ELSE IF Append(cur, comp) \in (Files \cup Dirs)
         THEN Walk(comps, i + 1, Append(cur, comp))
         ELSE ENOENT

\* the file an absolute path names on disk (ENOENT when there is none)
Resolve(path) == Walk(split(path), 1, <<>>)

\* os.path.isfile
isfile(path) == Resolve(path) \in Files

\* ------------------------------------------------------------- exceptions
NoExc == [class |-> "none", status_code |-> 0, message |-> NoText]

Exception(msg) == [class |-> "Exception", status_code |-> 0, message |-> msg]

\* fastapi.HTTPException(status_code, detail)
HTTPException(status_code, detail) ==
    [class |-> "HTTPException", status_code |-> status_code, message |-> detail]

StatusText(n) == IF n = 404 THEN "404" ELSE IF n = 500 THEN "500" ELSE "200"

\* str(e): the message of a plain exception, "<status>: <detail>" for an
\* HTTPException
Str(e) ==
    IF e.class = "HTTPException"
    THEN <<StatusText(e.status_code), ": ">> \o e.message
    ELSE e.message

\* HTTPException derives from Exception, so "except Exception" catches both
IsException(e) == e.class \in {"Exception", "HTTPException"}

\* variant: the detail carries the trace only
error_detailTraceOnly(e) == <<"\n", "traceback">>

\* error_detail = f"{str(e)}\n{traceback.format_exc()}"
error_detail(e) == Str(e) \o <<"\n", "traceback">>

Return(v) == [kind |-> "return", value |-> v, exc |-> NoExc]
Raise(e) == [kind |-> "raise", value |-> NoText, exc |-> e]

\* except Exception as e: raise HTTPException(status_code=500, ...)
ExceptException(outcome) ==
    IF outcome.kind = "raise" /\ IsException(outcome.exc)
    THEN Raise(HTTPException(500, error_detail(outcome.exc)))
    ELSE outcome

\* ---------------------------------------------------------------- get_file
NoFile == <<>>

\* FileResponse(full_path) is named by the path it will open
FileResponse(path) == path

\* variant: the existence test is not negated
GetFileTryNoNot(repo_root, file_path) ==
    LET full_path == join(repo_root, file_path) IN
    IF isfile(full_path)
       \/ ~startswith(normpath(full_path), normpath(repo_root))
    THEN Raise(HTTPException(404, <<"File not found: ">> \o file_path))
    ELSE Return(FileResponse(full_path))

\* the try block of get_file
GetFileTry(repo_root, file_path) ==
    LET full_path == join(repo_root, file_path) IN
    IF ~isfile(full_path)
       \/ ~startswith(normpath(full_path), normpath(repo_root))
    THEN Raise(HTTPException(404, <<"File not found: ">> \o file_path))
    ELSE Return(FileResponse(full_path))

get_file(repo_root, file_path) == ExceptException(GetFileTry(repo_root, file_path))

\* what the framework sends for a handler outcome: the bytes of the file the
\* path names on disk, or the raised HTTPException's status and detail
SendFile(outcome) ==
    IF outcome.kind = "return"
    THEN [status |-> 200, file |-> Resolve(outcome.value), detail |-> NoText]
    ELSE [status |-> outcome.exc.status_code, file |-> NoFile,
          detail |-> outcome.exc.message]

NoResponse == [status |-> 0, file |-> NoFile, detail |-> NoText]

\* ----------------------------------------------------------- start_server
NoCoder == [built |-> FALSE, stream |-> FALSE, pretty |-> FALSE,
            repo_root |-> NoText]

\* coder = cli_main(argv=argv, return_coder=True): flags as the command line
\* and configuration leave them
ConstructCoder ==
    /\ startup_pc = "start"
    /\ \E s \in BOOLEAN, p \in BOOLEAN :
          coder' = [built |-> TRUE, stream |-> s, pretty |-> p,
                    repo_root |-> RepoRoot]
    /\ startup_pc' = "coder"
    /\ UNCHANGED <<task, generators, fileReq, fileResp>>

\* app = create_app(coder)
CreateApp ==
    /\ startup_pc = "coder"
    /\ startup_pc' = "app"
    /\ UNCHANGED <<coder, task, generators, fileReq, fileResp>>

\* coder.stream = True
ForceStream ==
    /\ startup_pc = "app"
    /\ coder' = [coder EXCEPT !.stream = TRUE]
    /\ startup_pc' = "stream"
    /\ UNCHANGED <<task, generators, fileReq, fileResp>>

\* variant: pretty is left as the command line set it
ForcePrettySkipped ==
    /\ startup_pc = "stream"
    /\ startup_pc' = "pretty"
    /\ UNCHANGED <<coder, task, generators, fileReq, fileResp>>

\* coder.pretty = False
ForcePretty ==
    /\ startup_pc = "stream"
    /\ coder' = [coder EXCEPT !.pretty = FALSE]
    /\ startup_pc' = "pretty"
    /\ UNCHANGED <<task, generators, fileReq, fileResp>>

\* uvicorn.run(app, host=host, port=port)
Serve ==
    /\ startup_pc = "pretty"
    /\ startup_pc' = "serving"
    /\ UNCHANGED <<coder, task, generators, fileReq, fileResp>>

\* GET /file?file_path=p: the handler runs to its end without suspending,
\* so one request is answered at a time
GetFile(p) ==
    /\ startup_pc = "serving"
    /\ fileResp = NoResponse
    /\ fileReq' = p
    /\ fileResp' = SendFile(get_file(coder.repo_root, p))
    /\ UNCHANGED <<startup_pc, coder, task, generators>>

\* the response has been sent and the request is over
FileDone ==
    /\ fileResp # NoResponse
    /\ fileReq' = NoText
    /\ fileResp' = NoResponse
    /\ UNCHANGED <<startup_pc, coder, task, generators>>

\* -------------------------------------------------------------------- chat
Tasks == 1..MaxTasks

\* the handlers pass the message on unread, so one message stands for all
Messages == {<<"hi">>}

\* what the opaque coder may answer
RunTexts == {<<"hello">>, <<"ok">>}
Chunks == {<<"x">>, <<"y">>}
ErrorMessages == {<<"boom">>}

\* concatenation of a list of chunks
RECURSIVE Concat(_)
Concat(chunks) == IF chunks = <<>> THEN NoText ELSE chunks[1] \o Concat(Tail(chunks))

NoGenerator == [state |-> "none", arg |-> NoText, produced |-> <<>>, pulls |-> 0]

\* the generator object coder.run_stream(message) returns
NewGenerator(message) ==
    [state |-> "open", arg |-> message, produced |-> <<>>, pulls |-> 0]

\* next(generator): the coder yields another chunk, finishes or raises; a
\* generator that has finished or raised only ever stops
GeneratorNext(gen) ==
    IF gen.state # "open" THEN {[kind |-> "stop", value |-> NoText, exc |-> NoExc]}
    ELSE {[kind |-> "yield", value |-> c, exc |-> NoExc] :
              c \in IF Len(gen.produced) < MaxChunks THEN Chunks ELSE {}}
         \cup {[kind |-> "stop", value |-> NoText, exc |-> NoExc]}
         \cup {[kind |-> "raise", value |-> NoText, exc |-> Exception(m)] :
                  m \in ErrorMessages}

Advance(gen, step) ==
    [gen EXCEPT !.pulls = @ + 1,
                !.produced = IF step.kind = "yield" THEN Append(@, step.value) ELSE @,
                !.state = IF gen.state # "open" THEN @
                          ELSE IF step.kind = "stop" THEN "exhausted"
                          ELSE IF step.kind = "raise" THEN "raised"
                          ELSE @]

\* coder.run(with_message=message) / coder.run_stream(message) as calls
RunOutcomes ==
    {Return(r) : r \in RunTexts} \cup {Raise(Exception(m)) : m \in ErrorMessages}

RunStreamOutcomes ==
    {Return("generator")} \cup {Raise(Exception(m)) : m \in ErrorMessages}

IdleTask ==
    [pc |-> "idle", message |-> NoText, stream |-> FALSE, status |-> 0,
     media_type |-> "", content |-> NoText, body |-> <<>>, detail |-> NoText,
     generator |-> 0, sleeps |-> 0, calls |-> <<>>, returned |-> NoText,
     raised |-> NoExc, raisedAt |-> "none"]

ChatResponse(content) == [class |-> "ChatResponse", content |-> content]

StreamingResponse(generator, media_type) ==
    [class |-> "StreamingResponse", generator |-> generator,
     media_type |-> media_type]

\* variant: the stream flag of the request is ignored
UseStreamAlways(request) == TRUE

\* if request.stream:
UseStream(request) == request.stream

\* the try block of chat, given what the coder's call did
ChatTry(t, request, call) ==
    IF call.kind = "raise" THEN Raise(call.exc)
    ELSE IF UseStream(request)
    THEN Return(StreamingResponse(t, "text/plain"))
    ELSE Return(ChatResponse(call.value))

\* the framework's answer to the handler's outcome: an HTTPException becomes
\* its status and detail, a ChatResponse a 200 JSON body, a StreamingResponse
\* a started 200 response whose body iterator is about to be pulled
SendChat(tr, outcome) ==
    IF outcome.kind = "raise"
    THEN [tr EXCEPT !.status = outcome.exc.status_code,
                    !.detail = outcome.exc.message, !.pc = "done"]
    ELSE IF outcome.value.class = "ChatResponse"
    THEN [tr EXCEPT !.status = 200, !.media_type = "application/json",
                    !.content = outcome.value.content, !.pc = "done"]
    ELSE [tr EXCEPT !.status = 200, !.media_type = outcome.value.media_type,
                    !.generator = outcome.value.generator, !.pc = "pull"]

\* bookkeeping of the coder call made for a request
Called(tr, request, fn, call) ==
    [tr EXCEPT !.message = request.message, !.stream = request.stream,
               !.calls = Append(@, [fn |-> fn, arg |-> request.message]),
               !.returned = IF call.kind = "return" /\ fn = "run"
                            THEN call.value ELSE @,
               !.raised = call.exc,
               !.raisedAt = IF call.kind = "raise" THEN "call" ELSE @]

\* POST /chat
Chat(t, message, stream) ==
    /\ startup_pc = "serving"
    /\ task[t].pc = "idle"
    /\ LET request == [message |-> message, stream |-> stream] IN
       IF UseStream(request)
       THEN \E call \in RunStreamOutcomes :
              /\ generators' =
                     IF call.kind = "return"
                     THEN [generators EXCEPT ![t] = NewGenerator(request.message)]
                     ELSE generators
              /\ task' = [task EXCEPT ![t] =
                     SendChat(Called(@, request, "run_stream", call),
                              ExceptException(ChatTry(t, request, call)))]
       ELSE \E call \in RunOutcomes :
              /\ generators' = generators
              /\ task' = [task EXCEPT ![t] =
                     SendChat(Called(@, request, "run", call),
                              ExceptException(ChatTry(t, request, call)))]
    /\ UNCHANGED <<startup_pc, coder, fileReq, fileResp>>

\* ------------------------------------------------------- process_generator
\* variant: every adapter iterates one shared generator
AdapterSourceShared(tr) == 1

\* the generator the adapter iterates: its own argument
AdapterSource(tr) == tr.generator

\* variant: a new chunk is put in front of the body
YieldChunkInFront(tr, chunk) == [tr EXCEPT !.body = <<chunk>> \o @, !.pc = "yielded"]

\* variant: the adapter pulls again without suspending
YieldChunkNoSleep(tr, chunk) == [tr EXCEPT !.body = Append(@, chunk), !.pc = "pull"]

\* yield chunk: the chunk goes to the response body and the adapter is
\* suspended at the yield
YieldChunk(tr, chunk) == [tr EXCEPT !.body = Append(@, chunk), !.pc = "yielded"]

\* the for loop ends: the body is complete
StreamEnd(tr) == [tr EXCEPT !.pc = "done"]

\* variant: the chunks already forwarded are dropped when the generator raises
StreamRaisedRollback(tr, e) ==
    [tr EXCEPT !.pc = "aborted", !.raised = e, !.raisedAt = "chunk",
               !.body = <<>>]

\* the generator raises inside the for loop: nothing catches it, the started
\* response is cut
StreamRaised(tr, e) ==
    [tr EXCEPT !.pc = "aborted", !.raised = e, !.raisedAt = "chunk"]

\* for chunk in generator: ... yield chunk
NextChunk(t) ==
    /\ task[t].pc = "pull"
    /\ LET g == AdapterSource(task[t]) IN
       /\ g \in Tasks
       /\ generators[g].state # "none"
       /\ \E step \in GeneratorNext(generators[g]) :
            /\ generators' = [generators EXCEPT ![g] = Advance(@, step)]
            /\ task' = [task EXCEPT ![t] =
                   IF step.kind = "yield" THEN YieldChunk(@, step.value)
                   ELSE IF step.kind = "stop" THEN StreamEnd(@)
                   ELSE StreamRaised(@, step.exc)]
    /\ UNCHANGED <<startup_pc, coder, fileReq, fileResp>>

\* await asyncio.sleep(0)
AsyncioSleep(tr) == [tr EXCEPT !.sleeps = @ + 1, !.pc = "pull"]

Sleep(t) ==
    /\ task[t].pc = "yielded"
    /\ task' = [task EXCEPT ![t] = AsyncioSleep(@)]
    /\ UNCHANGED <<startup_pc, coder, generators, fileReq, fileResp>>

\* ---------------------------------------------------------- specifications
Init ==
    /\ startup_pc = "start"
    /\ coder = NoCoder
    /\ task = [t \in Tasks |-> IdleTask]
    /\ generators = [t \in Tasks |-> NoGenerator]
    /\ fileReq = NoText
    /\ fileResp = NoResponse

Next ==
    \/ ConstructCoder
    \/ CreateApp
    \/ ForceStream
    \/ ForcePretty
    \/ Serve
    \/ \E t \in Tasks, m \in Messages, s \in BOOLEAN : Chat(t, m, s)
    \/ \E t \in Tasks : NextChunk(t)
    \/ \E t \in Tasks : Sleep(t)

Spec == Init /\ [][Next]_vars

\* the event loop runs every ready task: a stream that can take its next
\* step eventually takes it
FairSpec ==
    /\ Spec
    /\ \A t \in Tasks : WF_vars(NextChunk(t)) /\ WF_vars(Sleep(t))

NextFile ==
    \/ ConstructCoder
    \/ CreateApp
    \/ ForceStream
    \/ ForcePretty
    \/ Serve
    \/ \E p \in PathStrings : GetFile(p)
    \/ FileDone

SpecFile == Init /\ [][NextFile]_vars

\* ------------------------------------------------------------ GET /file
\* the non-empty components of a path
Components(path) == SelectSeq(split(path), LAMBDA c : c # <<>>)

\* the normalized path lies strictly below the normalized root, component by
\* component
IsTrueDescendant(path, root) ==
    LET pc == Components(normpath(path))
        rc == Components(normpath(root))
    IN /\ startswith(normpath(path), <<"/">>)
       /\ ~startswith(normpath(path), <<"/", "/">>)
       /\ Len(pc) > Len(rc)
       /\ SubSeq(pc, 1, Len(rc)) = rc

FullPath == join(coder.repo_root, fileReq)

Answered == fileResp # NoResponse

\* C1: a file_path whose normalized location is not a true descendant of the
\* repository root is never served: the answer is an error (404 by the claim)
\* and carries no file bytes.
C1_EscapeNeverServed ==
    (Answered /\ ~IsTrueDescendant(FullPath, coder.repo_root))
        => (fileResp.status # 200 /\ fileResp.file = NoFile)

\* C2: when a validation check fails the client gets 404 with the message
\* "File not found: <file_path>"; 500 is for other exceptions only.
C2_ValidationIs404 ==
    (Answered /\ (~isfile(FullPath)
                  \/ ~startswith(normpath(FullPath), normpath(coder.repo_root))))
        => (/\ fileResp.status = 404
            /\ fileResp.detail = <<"File not found: ">> \o fileReq)

Handled(t) == task[t].pc # "idle"

RunStreamCall(t) == <<[fn |-> "run_stream", arg |-> task[t].message]>>
RunCall(t) == <<[fn |-> "run", arg |-> task[t].message]>>

\* C3 as stated: whenever the coder raised during a chat request, at the call
\* or while producing a chunk, the client gets 500 with the exception's
\* message followed by the trace.
C3_CoderErrorIs500 ==
    \A t \in Tasks :
        task[t].raisedAt # "none"
            => /\ task[t].status = 500
               /\ task[t].detail = task[t].raised.message \o <<"\n", "traceback">>

\* C3 amended: an exception raised by the coder's call itself (coder.run, or
\* the coder.run_stream call) gives 500 with the message followed by the
\* trace, in both modes alike; an exception raised while a chunk is produced
\* comes after the 200 response has started and leaves status 200 with no
\* error detail.
C3_CallErrorIs500 ==
    \A t \in Tasks :
        /\ task[t].raisedAt = "call"
              => /\ task[t].pc = "done"
                 /\ task[t].status = 500
                 /\ task[t].detail = task[t].raised.message \o <<"\n", "traceback">>
                 /\ task[t].body = <<>>
        /\ task[t].raisedAt = "chunk"
              => /\ task[t].stream
                 /\ task[t].status = 200
                 /\ task[t].detail = NoText

C3_Witness ==
    \E t \in Tasks, u \in Tasks :
        /\ task[t].raisedAt = "call" /\ task[t].stream
        /\ task[u].raisedAt = "call" /\ ~task[u].stream
        /\ task[u].status = 500

\* C4: a streamed chat whose chunk sequence ends without error is a 200
\* text/plain response whose body is the chunks of coder.run_stream(message),
\* each pulled once and forwarded once, in order, unchanged.
C4_StreamEqualsChunks ==
    \A t \in Tasks :
        (task[t].stream /\ task[t].pc = "done" /\ task[t].raisedAt = "none")
            => /\ task[t].status = 200
               /\ task[t].media_type = "text/plain"
               /\ task[t].calls = RunStreamCall(t)
               /\ generators[t].arg = task[t].message
               /\ generators[t].state = "exhausted"
               /\ generators[t].pulls = Len(generators[t].produced) + 1
               /\ task[t].body = generators[t].produced
               /\ Concat(task[t].body) = Concat(generators[t].produced)

C4_Witness ==
    \E t \in Tasks :
        /\ task[t].stream /\ task[t].pc = "done" /\ task[t].raisedAt = "none"
        /\ task[t].body = << <<"x">>, <<"y">> >>

\* C5: a blocking chat for which coder.run does not raise is a 200 response
\* whose content is the text coder.run returned for the request's message;
\* coder.run is called once and coder.run_stream not at all.
C5_BlockingEqualsRun ==
    \A t \in Tasks :
        (Handled(t) /\ ~task[t].stream /\ task[t].raisedAt = "none")
            => /\ task[t].pc = "done"
               /\ task[t].status = 200
               /\ task[t].content = task[t].returned
               /\ task[t].calls = RunCall(t)
               /\ generators[t] = NoGenerator

C5_Witness ==
    \E t \in Tasks :
        /\ Handled(t) /\ ~task[t].stream
        /\ task[t].message = <<"hi">>
        /\ task[t].content = <<"hello">>

\* C7: the coder is built, then stream=true and pretty=false are forced, and
\* only then requests are served; no request is handled with other flag
\* values, and once serving the coder's flags never change.
C7_FlagsBeforeServing ==
    /\ [](startup_pc \in {"stream", "pretty", "serving"}
             => coder.built /\ coder.stream)
    /\ [](startup_pc \in {"pretty", "serving"} => ~coder.pretty)
    /\ []((Answered \/ \E t \in Tasks : Handled(t))
             => startup_pc = "serving" /\ coder.stream /\ ~coder.pretty)
    /\ [][startup_pc = "serving" => coder' = coder /\ startup_pc' = "serving"]_vars

C7_Witness ==
    /\ startup_pc = "serving"
    /\ \E t \in Tasks : task[t].pc = "yielded"
    /\ \E t \in Tasks : task[t].pc = "done" /\ ~task[t].stream

\* C8: the adapter suspends exactly once after each forwarded chunk, the last
\* included, before it pulls again: no two chunks are forwarded without a
\* suspension between them, and while one stream is suspended another
\* request can take its step.
C8_YieldAfterEachChunk ==
    /\ [](\A t \in Tasks :
            /\ task[t].pc = "yielded" => Len(task[t].body) = task[t].sleeps + 1
            /\ task[t].pc \in {"pull", "done", "aborted"}
                  => Len(task[t].body) = task[t].sleeps)
    /\ [][\A t \in Tasks :
            task'[t].body # task[t].body
               => /\ Len(task'[t].body) = Len(task[t].body) + 1
                  /\ task[t].sleeps = Len(task[t].body)
                  /\ task'[t].pc = "yielded"]_vars
    /\ [](\A t \in Tasks, u \in Tasks :
            (t # u /\ task[t].pc = "yielded")
               => /\ task[u].pc = "pull" => ENABLED NextChunk(u)
                  /\ task[u].pc = "yielded" => ENABLED Sleep(u)
                  /\ task[u].pc = "idle" =>
                        ENABLED (\E m \in Messages, s \in BOOLEAN : Chat(u, m, s)))

C8_Witness ==
    \E t \in Tasks, u \in Tasks :
        /\ t # u
        /\ task[t].pc = "done" /\ Len(task[t].body) = 2 /\ task[t].sleeps = 2
        /\ task[u].pc = "yielded" /\ Len(task[u].body) = 1

\* C9: when the chunk sequence raises after k chunks the body is exactly
\* those k chunks in order and the response ends there: nothing more is
\* forwarded, the coder is not called again, and no sent chunk is taken back
\* or sent again.
C9_AbortKeepsPrefix ==
    /\ [](\A t \in Tasks :
            task[t].raisedAt = "chunk"
               => /\ task[t].pc = "aborted"
                  /\ task[t].body = generators[t].produced
                  /\ generators[t].state = "raised"
                  /\ generators[t].pulls = Len(task[t].body) + 1
                  /\ task[t].calls = RunStreamCall(t))
    /\ [][\A t \in Tasks :
            /\ startswith(task'[t].body, task[t].body)
            /\ task[t].pc = "aborted"
                  => task'[t] = task[t] /\ generators'[t] = generators[t]]_vars

C9_Witness ==
    \E t \in Tasks :
        /\ task[t].pc = "aborted"
        /\ task[t].body = << <<"y">>, <<"x">> >>

\* C10: with several streams in progress and interleaved at the yield points
\* in any order, each response holds exactly the chunks pulled so far from
\* the sequence made for its own request, in order, and every stream in
\* progress comes to its end.
C10_StreamsIsolated ==
    /\ [](\A t \in Tasks :
            /\ task[t].body = generators[t].produced
            /\ task[t].pc \in {"pull", "yielded", "aborted"}
                  => task[t].generator = t /\ generators[t].arg = task[t].message)
    /\ \A t \in Tasks :
            (task[t].pc \in {"pull", "yielded"})
                ~> (task[t].pc \in {"done", "aborted"})

C10_Witness ==
    \E t \in Tasks, u \in Tasks :
        /\ t # u
        /\ task[t].pc = "yielded" /\ task[t].body = << <<"x">>, <<"y">> >>
        /\ task[u].pc = "yielded" /\ task[u].body = << <<"y">> >>

====
